---- MODULE Spec2Model ----
(***************************************************************************)
(* BigInt (src/main.cpp): a non-negative integer of arbitrary length kept  *)
(* as a vector of int8_t decimal digits, least significant first, with     *)
(* operator+=, operator*=, operator-= and the algorithms factorial, power  *)
(* and fibonacci built on them, and the driver main().                     *)
(*                                                                         *)
(* A storage is a sequence of integers; index k of the C++ vector is       *)
(* index k+1 here.  Objects live in a memory (a function from object names *)
(* to storages) and the compound operators take the NAMES of their         *)
(* operands, as the C++ operators take references: `base *= base` is       *)
(* MulAssign(mem, "base", "base").                                         *)
(*                                                                         *)
(* A loop is a recursive operator and its body an operator of its own that *)
(* yields the variables the iteration changed.  The recursive call takes   *)
(* them from `CHOOSE out \in {Loop(s...) : s \in {Iter(...)}} : TRUE`, the  *)
(* value of Loop(s...) for s = Iter(...): TLC evaluates Iter(...) once     *)
(* there, where as a plain argument it is evaluated again at each use when *)
(* TLC evaluates ENABLED.                                                  *)
(***************************************************************************)
EXTENDS Integers, Sequences, FiniteSets, TLC

VARIABLES
    mem,      \* the BigInt objects that exist, name -> storage
    op,       \* register machine: the last operation and its operands before it ran
    status,   \* "ok", or how an access outside an object ended
    steps,    \* operations (register machine) or loop iterations (algorithms) so far
    pc,       \* algorithms: the function running and where it is
    call,     \* algorithms: the call being served, with its arguments
    count,    \* algorithms: the int parameter counted down (number, exponent)
    ret,      \* algorithms: the BigInt returned
    main,     \* driver: where main() is
    input_1,  \* driver: unsigned int input_1
    input_2,  \* driver: unsigned int input_2
    text      \* string construction and conversion: the last string read or written

vars == <<mem, op, status, steps, pc, call, count, ret, main, input_1, input_2, text>>

algVars == <<pc, call, count, ret>>

mainVars == <<main, input_1, input_2>>

textVars == <<text>>

\* The variables of the machines that are not running.
NoCall == [fn |-> "none", arg |-> 0, base |-> 0]

IdleAlg == pc = "idle" /\ call = NoCall /\ count = 0 /\ ret = <<>>

IdleMain == main = "idle" /\ input_1 = 0 /\ input_2 = 0

IdleText == text = <<>>

(***************************************************************************)
(* Bounds of the model.                                                    *)
(***************************************************************************)
MaxNative == 2     \* native unsigned integers 0..MaxNative are constructed
MaxOps == 2         \* operations in one run of the register machine
MaxLen == 8         \* digits of the two operands of an operation, together
MaxArg == 10        \* factorial, power and fibonacci are called with -MaxNeg..MaxArg
MaxNeg == 2         \* and a loop that counts away from 0 is followed this far
MaxBase == 5        \* power is called with base 0..MaxBase
MaxStrLen == 2      \* characters of a string a BigInt is constructed from

\* int is 32 bits wide: INT_MAX.  INT_MIN is -IntMax - 1 and UINT_MAX 2 * IntMax + 1.
IntMax == 2147483647

\* Native values around the digit-count boundaries, constructed besides 0..MaxNative.
BoundaryNatives == {9, 10, 55, 99, 100, 111, 999}

NativeInputs == (0..MaxNative) \cup BoundaryNatives

(***************************************************************************)
(* C++ integer arithmetic.                                                 *)
(***************************************************************************)
\* Narrowing of an int to int8_t (two's complement, modulo 2^8).
Int8(v) == ((v + 128) % 256) - 128

\* C++ integer division and remainder truncate toward zero.
CDiv(a, b) == IF a >= 0 THEN a \div b ELSE -((-a) \div b)

CMod(a, b) == a - b * CDiv(a, b)

Max(a, b) == IF a >= b THEN a ELSE b

(***************************************************************************)
(* std::vector<int8_t> operations used by the code.                        *)
(***************************************************************************)
\* vector::resize(n): truncate, or extend with value-initialised (0) elements.
RECURSIVE Resize(_, _)
Resize(s, n) == IF n <= Len(s) THEN SubSeq(s, 1, n) ELSE Resize(Append(s, 0), n)

\* while (size() > 1 && back() == 0) pop_back();  n is size().
RECURSIVE StripTo(_, _)
StripTo(s, n) == IF n > 1 /\ s[n] = 0 THEN StripTo(s, n - 1) ELSE SubSeq(s, 1, n)

\* Mutant of StripZeros: the result is left as the sweep produced it.
NoStrip(s) == s

StripZeros(s) == StripTo(s, Len(s))

(***************************************************************************)
(* Construction.                                                           *)
(***************************************************************************)
\* BigInt(unsigned int number): do { push_back(number % 10); number /= 10; } while (number);
RECURSIVE BigIntLoop(_, _)
BigIntLoop(storage, number) ==
    LET pushed == Append(storage, Int8(number % 10))
        rest == number \div 10
    IN IF rest # 0 THEN BigIntLoop(pushed, rest) ELSE pushed

BigInt(number) == BigIntLoop(<<>>, number)

\* BigInt() : BigInt(0)
BigIntDefault == BigInt(0)

\* An unsigned int is [top |-> its bit 31, low |-> its low 31 bits], so that every
\* number the model computes with stays below 2^31.
Unsigned(top, low) == [top |-> top, low |-> low]

\* The same constructor for any unsigned int u.  2^31 = 10 * 214748364 + 8, so the
\* first digit and quotient of top * 2^31 + low are taken piecewise.
BigIntUnsigned(u) ==
    LET units == 8 * u.top + (u.low % 10)
        rest == 214748364 * u.top + (u.low \div 10) + (units \div 10)
        pushed == <<Int8(units % 10)>>
    IN IF rest # 0 THEN BigIntLoop(pushed, rest) ELSE pushed

\* Conversion of an int to unsigned int (modulo 2^32), as when an int is passed
\* where the BigInt(unsigned int) constructor is called implicitly.
ToUnsigned(i) == IF i >= 0 THEN Unsigned(0, i) ELSE Unsigned(1, (i + IntMax) + 1)

\* Conversion of an unsigned int to int (modulo 2^32), as when input_1 is passed
\* to an `int` parameter.
ToInt(u) == IF u.top = 0 THEN u.low ELSE (u.low - IntMax) - 1

\* unsigned < unsigned
UnsignedLess(u, v) == u.top < v.top \/ (u.top = v.top /\ u.low < v.low)

(***************************************************************************)
(* operator+=                                                              *)
(***************************************************************************)
\* The body of the loop where left.storage[i] exists: the new memory and carry.
AddIter(m, left, right, i, carry) ==
    LET sum == IF i < Len(m[right])
               THEN Int8(m[left][i + 1] + (m[right][i + 1] + carry))
               ELSE Int8(m[left][i + 1] + carry)
    IN [m |-> [m EXCEPT ![left][i + 1] = Int8(CMod(sum, 10))], carry |-> Int8(CDiv(sum, 10))]

RECURSIVE AddLoop(_, _, _, _, _)
AddLoop(m, left, right, i, carry) ==
    IF ~(i < Len(m[right]) \/ carry # 0)
    THEN m
    ELSE IF i >= Len(m[right]) /\ i = Len(m[left])
    THEN [m EXCEPT ![left] = Append(@, carry)]
    ELSE CHOOSE out \in {AddLoop(s.m, left, right, i + 1, s.carry) :
                          s \in {AddIter(m, left, right, i, carry)}} : TRUE

\* Mutant of AddAssign: left is resized to right's size, not to the larger one.
AddAssignResizesToRight(m, left, right) ==
    CHOOSE out \in {AddLoop(resized, left, right, 0, 0) :
                    resized \in {[m EXCEPT ![left] = Resize(@, Len(m[right]))]}} : TRUE

AddAssign(m, left, right) ==
    LET max_size == Max(Len(m[left]), Len(m[right]))
    IN CHOOSE out \in {AddLoop(resized, left, right, 0, 0) :
                       resized \in {[m EXCEPT ![left] = Resize(@, max_size)]}} : TRUE

(***************************************************************************)
(* operator*=                                                              *)
(* The product is built in a local `result`; the operands are read through *)
(* their references until left.storage is replaced at the end.  A write    *)
(* past the end of result.storage is reported as oob.                      *)
(***************************************************************************)
\* The body of the inner loop: the new result buffer and carry.
MulIter(m, left, right, result, i, j, carry) ==
    LET product == Int8(result[i + j + 1]
                        + (IF j < Len(m[left]) THEN m[right][i + 1] * m[left][j + 1] ELSE 0)
                        + carry)
    IN [result |-> [result EXCEPT ![i + j + 1] = Int8(CMod(product, 10))],
        carry |-> Int8(CDiv(product, 10))]

\* Mutant of MulInner: the pass ends with left's digits, a remaining carry is dropped.
RECURSIVE MulInnerDropsCarry(_, _, _, _, _, _, _)
MulInnerDropsCarry(m, left, right, result, i, j, carry) ==
    IF ~(j < Len(m[left]))
    THEN [storage |-> result, oob |-> FALSE]
    ELSE CHOOSE out \in {MulInnerDropsCarry(m, left, right, s.result, i, j + 1, s.carry) :
                          s \in {MulIter(m, left, right, result, i, j, carry)}} : TRUE

RECURSIVE MulInner(_, _, _, _, _, _, _)
MulInner(m, left, right, result, i, j, carry) ==
    IF ~(j < Len(m[left]) \/ carry # 0)
    THEN [storage |-> result, oob |-> FALSE]
    ELSE IF i + j >= Len(result)
    THEN [storage |-> result, oob |-> TRUE]
    ELSE CHOOSE out \in {MulInner(m, left, right, s.result, i, j + 1, s.carry) :
                          s \in {MulIter(m, left, right, result, i, j, carry)}} : TRUE

RECURSIVE MulOuter(_, _, _, _, _)
MulOuter(m, left, right, result, i) ==
    IF i < Len(m[right])
    THEN CHOOSE out \in {IF pass.oob
                         THEN pass
                         ELSE MulOuter(m, left, right, pass.storage, i + 1) :
                         pass \in {MulInner(m, left, right, result, i, 0, 0)}} : TRUE
    ELSE [storage |-> result, oob |-> FALSE]

\* Mutant of MulAssign: the product is accumulated in left.storage itself, the
\* old digits of left being kept aside, and right is read through its reference.
InPlaceIter(m, kept, left, right, i, j, carry) ==
    LET product == Int8(m[left][i + j + 1]
                        + (IF j < Len(kept) THEN m[right][i + 1] * kept[j + 1] ELSE 0)
                        + carry)
    IN [m |-> [m EXCEPT ![left][i + j + 1] = Int8(CMod(product, 10))],
        carry |-> Int8(CDiv(product, 10))]

RECURSIVE InPlaceInner(_, _, _, _, _, _, _)
InPlaceInner(m, kept, left, right, i, j, carry) ==
    IF ~(j < Len(kept) \/ carry # 0) \/ i + j >= Len(m[left])
    THEN m
    ELSE CHOOSE out \in {InPlaceInner(s.m, kept, left, right, i, j + 1, s.carry) :
                          s \in {InPlaceIter(m, kept, left, right, i, j, carry)}} : TRUE

RECURSIVE InPlaceOuter(_, _, _, _, _, _)
InPlaceOuter(m, kept, left, right, size, i) ==
    IF i < size
    THEN CHOOSE out \in {InPlaceOuter(pass, kept, left, right, size, i + 1) :
                         pass \in {InPlaceInner(m, kept, left, right, i, 0, 0)}} : TRUE
    ELSE m

MulAssignInPlace(m, left, right) ==
    LET size == Len(m[right])
        cleared == [m EXCEPT ![left] = Resize(<<>>, Len(m[left]) + size)]
    IN CHOOSE out \in {[mem |-> [swept EXCEPT ![left] = StripZeros(@)], oob |-> FALSE] :
                       swept \in {InPlaceOuter(cleared, m[left], left, right, size, 0)}} : TRUE

\* [mem |-> the memory afterwards, oob |-> a write left the result buffer]
MulAssign(m, left, right) ==
    LET buffer == Resize(BigIntDefault, Len(m[left]) + Len(m[right]))
    IN CHOOSE out \in {[mem |-> [m EXCEPT ![left] = StripZeros(swept.storage)],
                        oob |-> swept.oob] :
                       swept \in {MulOuter(m, left, right, buffer, 0)}} : TRUE

(***************************************************************************)
(* operator-=                                                              *)
(* No comparison of the operands is made.  An access to left.storage[i]    *)
(* with i >= left.storage.size() is reported as oob; the sweep stops there *)
(* in the model, what the program does next is undefined.                  *)
(***************************************************************************)
\* The body of the loop where left.storage[i] exists: the new memory and borrow.
SubIter(m, left, right, i, borrow) ==
    LET subtrahend == IF i < Len(m[right]) THEN m[right][i + 1] ELSE 0
        diff == Int8(m[left][i + 1] - (subtrahend + borrow))
    IN IF diff < 0
       THEN [m |-> [m EXCEPT ![left][i + 1] = Int8(diff + 10)], borrow |-> 1]
       ELSE [m |-> [m EXCEPT ![left][i + 1] = diff], borrow |-> 0]

\* Mutant of SubLoop: the sweep ends with right's digits, a remaining borrow is dropped.
RECURSIVE SubLoopDropsBorrow(_, _, _, _, _)
SubLoopDropsBorrow(m, left, right, i, borrow) ==
    IF ~(i < Len(m[right]))
    THEN [mem |-> m, oob |-> FALSE]
    ELSE IF i >= Len(m[left])
    THEN [mem |-> m, oob |-> TRUE]
    ELSE CHOOSE out \in {SubLoopDropsBorrow(s.m, left, right, i + 1, s.borrow) :
                          s \in {SubIter(m, left, right, i, borrow)}} : TRUE

RECURSIVE SubLoop(_, _, _, _, _)
SubLoop(m, left, right, i, borrow) ==
    IF ~(i < Len(m[right]) \/ borrow # 0)
    THEN [mem |-> m, oob |-> FALSE]
    ELSE IF i >= Len(m[left])
    THEN [mem |-> m, oob |-> TRUE]
    ELSE CHOOSE out \in {SubLoop(s.m, left, right, i + 1, s.borrow) :
                          s \in {SubIter(m, left, right, i, borrow)}} : TRUE

\* [mem |-> the memory afterwards, oob |-> an access left left.storage]
SubAssign(m, left, right) ==
    CHOOSE out \in {[mem |-> [swept.mem EXCEPT ![left] = StripZeros(@)], oob |-> swept.oob] :
                    swept \in {SubLoop(m, left, right, 0, 0)}} : TRUE

(***************************************************************************)
(* The binary operators: BigInt result = left; result op= right; return.   *)
(***************************************************************************)
\* The frame of a binary operator: its local `result`, a copy of left, and `right`.
Frame(a, b) == [result |-> a, right |-> b]

\* operator+
Plus(a, b) == AddAssign(Frame(a, b), "result", "right")["result"]

\* operator*
Times(a, b) == MulAssign(Frame(a, b), "result", "right")

\* operator-
Minus(a, b) == SubAssign(Frame(a, b), "result", "right")

(***************************************************************************)
(* Numeric reading of a storage, used to state what the code computes.     *)
(***************************************************************************)
RECURSIVE Value(_)
Value(s) == IF Len(s) = 0 THEN 0 ELSE s[1] + 10 * Value(Tail(s))

IsDigits(s) == \A k \in 1..Len(s) : s[k] \in 0..9

Canonical(s) == Len(s) >= 1 /\ IsDigits(s) /\ (Len(s) > 1 => s[Len(s)] # 0)

(***************************************************************************)
(* The register machine: two BigInt objects x and y, and every operation   *)
(* of the class applied to them in any order, both operands possibly the   *)
(* same object.                                                            *)
(***************************************************************************)
Regs == {"x", "y"}

NoStorage == <<>>

\* name: the operation; dst: the object that received the result; left, right:
\* the operands; l, r: their storages before the operation; minuend: for an
\* addition that directly follows `left -= right` (or `dst = left - right`)
\* and adds the same right operand back to its result, the minuend of that
\* subtraction.
Record(name, dst, left, right, minuend) ==
    [name |-> name, dst |-> dst, left |-> left, right |-> right,
     l |-> mem[left], r |-> mem[right], minuend |-> minuend]

Constructed(name, dst) ==
    [name |-> name, dst |-> dst, left |-> dst, right |-> dst,
     l |-> NoStorage, r |-> NoStorage, minuend |-> NoStorage]

\* How an operation that made an out-of-bounds access can end.
Outcomes(oob) == IF oob THEN {"crashed", "corrupted"} ELSE {"ok"}

Init ==
    /\ mem \in [Regs -> {BigInt(n) : n \in NativeInputs}]
    /\ op = Constructed("native", "x")
    /\ status = "ok"
    /\ steps = 0
    /\ IdleAlg
    /\ IdleMain
    /\ IdleText

Ready == status = "ok" /\ steps < MaxOps

\* The operands are small enough for the operation to be modelled.
Fits(left, right) == Len(mem[left]) + Len(mem[right]) <= MaxLen

DefaultConstruct(reg) ==
    /\ Ready
    /\ mem' = [mem EXCEPT ![reg] = BigIntDefault]
    /\ op' = Constructed("default", reg)
    /\ status' = "ok"
    /\ steps' = steps + 1
    /\ UNCHANGED <<algVars, mainVars, textVars>>

NativeConstruct(reg, n) ==
    /\ Ready
    /\ mem' = [mem EXCEPT ![reg] = BigInt(n)]
    /\ op' = Constructed("native", reg)
    /\ status' = "ok"
    /\ steps' = steps + 1
    /\ UNCHANGED <<algVars, mainVars, textVars>>

\* The minuend an addition of `right` to `left` restores, if the last operation
\* was a subtraction of the same `right` that left its result in `left`.
Restores(left, right) ==
    IF op.name = "sub" /\ op.dst = left /\ op.right = right /\ left # right
    THEN op.l
    ELSE NoStorage

\* left += right
AddAssignOp(left, right) ==
    /\ Ready
    /\ Fits(left, right)
    /\ mem' = AddAssign(mem, left, right)
    /\ op' = Record("add", left, left, right, Restores(left, right))
    /\ status' = "ok"
    /\ steps' = steps + 1
    /\ UNCHANGED <<algVars, mainVars, textVars>>

\* dst = left + right
PlusOp(dst, left, right) ==
    /\ Ready
    /\ Fits(left, right)
    /\ mem' = [mem EXCEPT ![dst] = Plus(mem[left], mem[right])]
    /\ op' = Record("add", dst, left, right, Restores(left, right))
    /\ status' = "ok"
    /\ steps' = steps + 1
    /\ UNCHANGED <<algVars, mainVars, textVars>>

\* left *= right
MulAssignOp(left, right) ==
    /\ Ready
    /\ Fits(left, right)
    /\ LET done == MulAssign(mem, left, right)
       IN /\ mem' = done.mem
          /\ status' \in Outcomes(done.oob)
    /\ op' = Record("mul", left, left, right, NoStorage)
    /\ steps' = steps + 1
    /\ UNCHANGED <<algVars, mainVars, textVars>>

\* dst = left * right
TimesOp(dst, left, right) ==
    /\ Ready
    /\ Fits(left, right)
    /\ LET done == Times(mem[left], mem[right])
       IN /\ mem' = [mem EXCEPT ![dst] = done.mem["result"]]
          /\ status' \in Outcomes(done.oob)
    /\ op' = Record("mul", dst, left, right, NoStorage)
    /\ steps' = steps + 1
    /\ UNCHANGED <<algVars, mainVars, textVars>>

\* left -= right, whatever the operands are.
SubAssignAny(left, right) ==
    /\ Ready
    /\ Fits(left, right)
    /\ LET done == SubAssign(mem, left, right)
       IN /\ mem' = done.mem
          /\ status' \in Outcomes(done.oob)
    /\ op' = Record("sub", left, left, right, NoStorage)
    /\ steps' = steps + 1
    /\ UNCHANGED <<algVars, mainVars, textVars>>

\* dst = left - right, whatever the operands are.
MinusAny(dst, left, right) ==
    /\ Ready
    /\ Fits(left, right)
    /\ LET done == Minus(mem[left], mem[right])
       IN /\ mem' = [mem EXCEPT ![dst] = done.mem["result"]]
          /\ status' \in Outcomes(done.oob)
    /\ op' = Record("sub", dst, left, right, NoStorage)
    /\ steps' = steps + 1
    /\ UNCHANGED <<algVars, mainVars, textVars>>

\* The precondition the documentation of operator-= and operator- states.
Precondition(left, right) == Value(mem[left]) >= Value(mem[right])

\* left -= right, called as documented.
SubAssignOp(left, right) ==
    Fits(left, right) /\ Precondition(left, right) /\ SubAssignAny(left, right)

\* dst = left - right, called as documented.
MinusOp(dst, left, right) ==
    Fits(left, right) /\ Precondition(left, right) /\ MinusAny(dst, left, right)

\* left -= right, called against the documentation.
SubAssignBelow(left, right) ==
    Fits(left, right) /\ ~Precondition(left, right) /\ SubAssignAny(left, right)

\* dst = left - right, called against the documentation.
MinusBelow(dst, left, right) ==
    Fits(left, right) /\ ~Precondition(left, right) /\ MinusAny(dst, left, right)

Next ==
    \/ \E reg \in Regs : DefaultConstruct(reg)
    \/ \E reg \in Regs, n \in NativeInputs : NativeConstruct(reg, n)
    \/ \E left, right \in Regs : AddAssignOp(left, right)
    \/ \E dst, left, right \in Regs : PlusOp(dst, left, right)
    \/ \E left, right \in Regs : MulAssignOp(left, right)
    \/ \E dst, left, right \in Regs : TimesOp(dst, left, right)
    \/ \E left, right \in Regs : SubAssignOp(left, right)
    \/ \E dst, left, right \in Regs : MinusOp(dst, left, right)

\* The class used as documented: subtraction only with left >= right.
Spec == Init /\ [][Next]_vars

NextUnchecked ==
    \/ Next
    \/ \E left, right \in Regs : SubAssignBelow(left, right)
    \/ \E dst, left, right \in Regs : MinusBelow(dst, left, right)

\* The class as it can be called: subtraction with any operands.
SpecUnchecked == Init /\ [][NextUnchecked]_vars

(***************************************************************************)
(* The algorithms: factorial, power, fibonacci.  A call enters the         *)
(* function, every loop iteration is one step, the return is the last.     *)
(* The locals are objects of the memory; `count` is the int parameter.     *)
(***************************************************************************)
ArgInts == (-MaxNeg)..MaxArg

\* One iteration of `while (number) result *= number--;`: the BigInt(unsigned int)
\* constructor makes the temporary right operand from the int.
FactorialBody(m, n) ==
    CHOOSE out \in {[result |-> MulAssign(operands, "result", "temporary").mem.result] :
                    operands \in {[result |-> m.result,
                                   temporary |-> BigIntUnsigned(ToUnsigned(n))]}} : TRUE

\* One iteration of the loop of power(): exponent is n.
PowerBody(m, n) ==
    CHOOSE out \in {MulAssign(multiplied, "base", "base").mem :
                    multiplied \in {IF n % 2 = 1
                                    THEN MulAssign(m, "result", "base").mem
                                    ELSE m}} : TRUE

\* Mutant of FibonacciBody: the two additions in the other order.
FibonacciBodySwapped(m) ==
    CHOOSE out \in {AddAssign(first, "pair0", "pair1") :
                    first \in {AddAssign(m, "pair1", "pair0")}} : TRUE

\* One iteration of the loop of fibonacci().
FibonacciBody(m) ==
    CHOOSE out \in {AddAssign(first, "pair1", "pair0") :
                    first \in {AddAssign(m, "pair0", "pair1")}} : TRUE

\* What can stand in memory where fibonacci_pair[number] is read with number
\* outside {0, 1}: anything; these storages stand for it.
Garbage == {<<>>, <<0>>, <<-1, 77>>}

InitAlg ==
    /\ mem = <<>>
    /\ op = Constructed("none", "x")
    /\ status = "ok"
    /\ steps = 0
    /\ IdleAlg
    /\ IdleMain
    /\ IdleText

CallFactorial(n) ==
    /\ pc = "idle"
    /\ pc' = "factorial"
    /\ call' = [fn |-> "factorial", arg |-> n, base |-> 0]
    /\ count' = n
    /\ mem' = [result |-> BigInt(1)]
    /\ UNCHANGED <<op, status, steps, ret, mainVars, textVars>>

\* With number < 0 the loop counts down towards INT_MIN, some 2^31 iterations
\* away; the model follows its first MaxNeg iterations.
FactorialStep ==
    /\ pc = "factorial"
    /\ count # 0
    /\ (count < 0 => steps < MaxNeg)
    /\ mem' = FactorialBody(mem, count)
    /\ count' = count - 1
    /\ steps' = steps + 1
    /\ UNCHANGED <<op, status, pc, call, ret, mainVars, textVars>>

FactorialReturn ==
    /\ pc = "factorial"
    /\ count = 0
    /\ ret' = mem.result
    /\ pc' = "returned"
    /\ UNCHANGED <<mem, op, status, steps, call, count, mainVars, textVars>>

CallPower(b, n) ==
    /\ pc = "idle"
    /\ pc' = "power"
    /\ call' = [fn |-> "power", arg |-> n, base |-> b]
    /\ count' = n
    /\ mem' = [base |-> BigInt(b), result |-> BigInt(1)]
    /\ UNCHANGED <<op, status, steps, ret, mainVars, textVars>>

PowerStep ==
    /\ pc = "power"
    /\ count > 0
    /\ mem' = PowerBody(mem, count)
    /\ count' = count \div 2
    /\ steps' = steps + 1
    /\ UNCHANGED <<op, status, pc, call, ret, mainVars, textVars>>

PowerReturn ==
    /\ pc = "power"
    /\ ~(count > 0)
    /\ ret' = mem.result
    /\ pc' = "returned"
    /\ UNCHANGED <<mem, op, status, steps, call, count, mainVars, textVars>>

CallFibonacci(n) ==
    /\ pc = "idle"
    /\ pc' = "fibonacci"
    /\ call' = [fn |-> "fibonacci", arg |-> n, base |-> 0]
    /\ count' = n
    /\ mem' = [pair0 |-> BigInt(0), pair1 |-> BigInt(1)]
    /\ UNCHANGED <<op, status, steps, ret, mainVars, textVars>>

FibonacciStep ==
    /\ pc = "fibonacci"
    /\ count > 1
    /\ mem' = FibonacciBody(mem)
    /\ count' = count - 2
    /\ steps' = steps + 1
    /\ UNCHANGED <<op, status, pc, call, ret, mainVars, textVars>>

\* return fibonacci_pair[number]; with number outside {0, 1} the read is outside
\* the array: the call crashes or returns whatever is there.
FibonacciReturn ==
    /\ pc = "fibonacci"
    /\ ~(count > 1)
    /\ IF count \in {0, 1}
       THEN /\ ret' = (IF count = 0 THEN mem.pair0 ELSE mem.pair1)
            /\ pc' = "returned"
            /\ status' = "ok"
       ELSE \/ /\ ret' \in Garbage
               /\ pc' = "returned"
               /\ status' = "corrupted"
            \/ /\ ret' = ret
               /\ pc' = "crashed"
               /\ status' = "crashed"
    /\ UNCHANGED <<mem, op, steps, call, count, mainVars, textVars>>

NextAlg ==
    \/ \E n \in ArgInts : CallFactorial(n)
    \/ FactorialStep
    \/ FactorialReturn
    \/ \E b \in 0..MaxBase, n \in ArgInts : CallPower(b, n)
    \/ PowerStep
    \/ PowerReturn
    \/ \E n \in ArgInts : CallFibonacci(n)
    \/ FibonacciStep
    \/ FibonacciReturn

\* A call that has been entered keeps running: the program is sequential and
\* nothing suspends it.
SpecAlg == InitAlg /\ [][NextAlg]_vars /\ WF_vars(NextAlg)

(***************************************************************************)
(* Strings.  A std::string is a sequence of character codes (ASCII).       *)
(***************************************************************************)
\* '0'
Zero == 48

\* The characters strings are made of: '/', '0', '1', '9', ':' and 'a'.
Chars == {47, 48, 49, 57, 58, 97}

Strings == UNION {[1..n -> Chars] : n \in 0..MaxStrLen}

\* BigInt(std::string str): storage[str.size() - 1 - i] = str[i] - '0'
RECURSIVE BigIntString(_)
BigIntString(str) ==
    IF Len(str) = 0
    THEN <<>>
    ELSE Append(BigIntString(Tail(str)), Int8(Head(str) - Zero))

\* operator std::string(): str[i] = storage[str.size() - 1 - i] + '0'
RECURSIVE ToStdString(_)
ToStdString(storage) ==
    IF Len(storage) = 0
    THEN <<>>
    ELSE Append(ToStdString(Tail(storage)), Int8(Head(storage) + Zero))

\* The characters `stream << +digit` writes for one element of the storage.
RECURSIVE FormatNat(_)
FormatNat(v) == IF v < 10 THEN <<Zero + v>> ELSE Append(FormatNat(v \div 10), Zero + (v % 10))

FormatInt(v) == IF v < 0 THEN <<45>> \o FormatNat(-v) ELSE FormatNat(v)

\* operator<<: the elements from the most significant, each written as an int.
RECURSIVE StreamOut(_)
StreamOut(storage) ==
    IF Len(storage) = 0
    THEN <<>>
    ELSE FormatInt(storage[Len(storage)]) \o StreamOut(SubSeq(storage, 1, Len(storage) - 1))

InitText ==
    /\ mem = [x |-> BigIntDefault, y |-> BigIntDefault]
    /\ op = Constructed("default", "x")
    /\ status = "ok"
    /\ steps = 0
    /\ IdleAlg
    /\ IdleMain
    /\ IdleText

\* BigInt reg(str), or reg = str
StringConstruct(reg, str) ==
    /\ mem' = [mem EXCEPT ![reg] = BigIntString(str)]
    /\ op' = Constructed("string", reg)
    /\ text' = str
    /\ UNCHANGED <<status, steps, algVars, mainVars>>

\* operator>>: stream >> input; big_number = input.  The token is the next
\* run of non-blank characters, or empty at the end of the stream.
ReadOp(reg, token) ==
    /\ mem' = [mem EXCEPT ![reg] = BigIntString(token)]
    /\ op' = Constructed("read", reg)
    /\ text' = token
    /\ UNCHANGED <<status, steps, algVars, mainVars>>

\* std::string(reg)
ToStringOp(reg) ==
    /\ text' = ToStdString(mem[reg])
    /\ op' = Constructed("to_string", reg)
    /\ UNCHANGED <<mem, status, steps, algVars, mainVars>>

\* stream << reg
StreamOutOp(reg) ==
    /\ text' = StreamOut(mem[reg])
    /\ op' = Constructed("stream_out", reg)
    /\ UNCHANGED <<mem, status, steps, algVars, mainVars>>

NextText ==
    \/ \E reg \in Regs, str \in Strings : StringConstruct(reg, str)
    \/ \E reg \in Regs, token \in Strings : ReadOp(reg, token)
    \/ \E reg \in Regs : ToStringOp(reg)
    \/ \E reg \in Regs : StreamOutOp(reg)

SpecText == InitText /\ [][NextText]_vars

(***************************************************************************)
(* main().  The calls are run to their return with the loop bodies above.  *)
(***************************************************************************)
RECURSIVE FactorialRun(_, _)
FactorialRun(m, n) == IF n # 0 THEN FactorialRun(FactorialBody(m, n), n - 1) ELSE m.result

\* factorial(number) for number >= 0
Factorial(n) == FactorialRun([result |-> BigInt(1)], n)

RECURSIVE PowerRun(_, _)
PowerRun(m, n) == IF n > 0 THEN PowerRun(PowerBody(m, n), n \div 2) ELSE m.result

\* power(base, exponent)
Power(base, n) == PowerRun([base |-> base, result |-> BigInt(1)], n)

RECURSIVE FibonacciRun(_, _)
FibonacciRun(m, n) ==
    IF n > 1 THEN FibonacciRun(FibonacciBody(m), n - 2)
    ELSE IF n = 0 THEN m.pair0 ELSE m.pair1

\* fibonacci(number) for number >= 0
Fibonacci(n) == FibonacciRun([pair0 |-> BigInt(0), pair1 |-> BigInt(1)], n)

\* The unsigned ints read from std::cin: small ones, and ones with bit 31 set.
\* (Exponents from 2^31 - MaxArg up to 2^31 - 1 would need powers of 2 of some
\* 600 million digits.)
MainInputs ==
    {Unsigned(top, low) : top \in {0, 1}, low \in (0..MaxArg) \cup {IntMax}}
        \ {Unsigned(0, IntMax)}

InitMain ==
    /\ mem = <<>>
    /\ op = Constructed("none", "x")
    /\ status = "ok"
    /\ steps = 0
    /\ IdleAlg
    /\ main = "factorial"
    /\ input_1 = Unsigned(0, 0)
    /\ input_2 = Unsigned(0, 0)
    /\ IdleText

\* std::cin >> input_1; std::cout << factorial(input_1) << std::endl;
\* With (int) input_1 < 0 the call does not return (see FactorialStep).
MainFactorial(u) ==
    /\ main = "factorial"
    /\ input_1' = u
    /\ IF ToInt(u) < 0
       THEN main' = "in factorial" /\ text' = text
       ELSE main' = "power" /\ text' = StreamOut(Factorial(ToInt(u)))
    /\ UNCHANGED <<mem, op, status, steps, algVars, input_2>>

\* std::cin >> input_1; std::cout << power(2, input_1) << std::endl;
MainPower(u) ==
    /\ main = "power"
    /\ input_1' = u
    /\ text' = StreamOut(Power(BigInt(2), ToInt(u)))
    /\ main' = "sum"
    /\ UNCHANGED <<mem, op, status, steps, algVars, input_2>>

\* std::cin >> input_1 >> input_2; std::cout << power(2, input_1) + power(2, input_2) << std::endl;
MainSum(u, v) ==
    /\ main = "sum"
    /\ input_1' = u
    /\ input_2' = v
    /\ text' = StreamOut(Plus(Power(BigInt(2), ToInt(u)), Power(BigInt(2), ToInt(v))))
    /\ main' = "read"
    /\ UNCHANGED <<mem, op, status, steps, algVars>>

\* std::cin >> input_1 >> input_2;  (before the loop)
MainRead(u, v) ==
    /\ main = "read"
    /\ input_1' = u
    /\ input_2' = v
    /\ main' = "check"
    /\ UNCHANGED <<mem, op, status, steps, algVars, text>>

\* while (input_1 < input_2) { std::cout << "The first number should ..."; std::cin >> input_1 >> input_2; }
MainPrompt(u, v) ==
    /\ main = "check"
    /\ UnsignedLess(input_1, input_2)
    /\ input_1' = u
    /\ input_2' = v
    /\ text' = <<"The first number should be greater or equal than the second number!">>
    /\ UNCHANGED <<mem, op, status, steps, main, algVars>>

\* std::cout << power(2, input_1) - power(2, input_2) << std::endl;
MainDifference ==
    /\ main = "check"
    /\ ~UnsignedLess(input_1, input_2)
    /\ LET minuend == Power(BigInt(2), ToInt(input_1))
           subtrahend == Power(BigInt(2), ToInt(input_2))
           done == Minus(minuend, subtrahend)
       IN /\ mem' = [minuend |-> minuend, subtrahend |-> subtrahend,
                     difference |-> done.mem.result]
          /\ status' \in Outcomes(done.oob)
          /\ IF status' = "crashed"
             THEN main' = "crashed" /\ text' = text
             ELSE main' = "fibonacci" /\ text' = StreamOut(done.mem.result)
    /\ UNCHANGED <<op, steps, algVars, input_1, input_2>>

\* std::cin >> input_1; std::cout << fibonacci(input_1) << std::endl; return 0;
\* With (int) input_1 < 0 the read of fibonacci_pair[number] is outside the array.
MainFibonacci(u) ==
    /\ main = "fibonacci"
    /\ input_1' = u
    /\ IF ToInt(u) >= 0
       THEN main' = "exit" /\ text' = StreamOut(Fibonacci(ToInt(u)))
       ELSE \/ main' = "crashed" /\ text' = text
            \/ main' = "exit" /\ text' \in {StreamOut(g) : g \in Garbage}
    /\ UNCHANGED <<mem, op, status, steps, algVars, input_2>>

NextMain ==
    \/ \E u \in MainInputs : MainFactorial(u)
    \/ \E u \in MainInputs : MainPower(u)
    \/ \E u, v \in MainInputs : MainSum(u, v)
    \/ \E u, v \in MainInputs : MainRead(u, v)
    \/ \E u, v \in MainInputs : MainPrompt(u, v)
    \/ MainDifference
    \/ \E u \in MainInputs : MainFibonacci(u)

SpecMain == InitMain /\ [][NextMain]_vars

(***************************************************************************)
(* Properties.                                                             *)
(***************************************************************************)
RECURSIVE PowNat(_, _)
PowNat(b, n) == IF n = 0 THEN 1 ELSE b * PowNat(b, n - 1)

RECURSIVE Fib(_)
Fib(n) == IF n < 2 THEN n ELSE Fib(n - 1) + Fib(n - 2)

\* The storage the last operation of the register machine produced.
Produced == mem[op.dst]

\* The last subtraction was called with left < right.
Underflows == op.name = "sub" /\ Value(op.l) < Value(op.r)

\* C1: a subtraction with a smaller minuend ends in the failure
\* SubtractionUnderflow: it makes no access outside the storage of its left
\* operand and returns no digits.
SubtractionUnderflowSignalled == Underflows => status = "SubtractionUnderflow"

\* C2: whatever default construction, construction from a native unsigned
\* integer, +=, +, *=, *, and -=, - with left >= right have been applied, every
\* BigInt has at least one digit, all its digits are in 0..9, and its most
\* significant digit is not 0 unless it is its only digit.
CanonicalForm == \A reg \in Regs : Canonical(mem[reg])

\* Several operations have run and the last one multiplied a number of several
\* digits by zero, so that its buffer of zeros was stripped to the single digit 0.
CanonicalFormWitness ==
    /\ steps >= 2
    /\ op.name = "mul"
    /\ Len(op.l) > 1
    /\ op.r = <<0>>
    /\ Produced = <<0>>

\* C3: when b, with a >= b, is subtracted from a and then added back to the
\* difference, the sum is a again, digit for digit.
SubtractionAdditionInverse ==
    (op.name = "add" /\ op.minuend # NoStorage) => Produced = op.minuend

\* 100 - 1 = 99 (the borrow runs through two digits and the leading digit is
\* lost), and 99 + 1 is 100 again.
SubtractionAdditionInverseWitness ==
    /\ op.name = "add"
    /\ op.minuend = <<0, 0, 1>>
    /\ op.l = <<9, 9>>
    /\ op.r = <<1>>
    /\ Produced = <<0, 0, 1>>

\* C4: a + b is the canonical decimal representation of value(a) + value(b), the
\* same digits as b + a, and as long as the longer operand or one digit longer.
AdditionExact ==
    op.name = "add" =>
        /\ Canonical(Produced)
        /\ Value(Produced) = Value(op.l) + Value(op.r)
        /\ Produced = Plus(op.r, op.l)
        /\ Len(Produced) \in {Max(Len(op.l), Len(op.r)), Max(Len(op.l), Len(op.r)) + 1}

\* 1 + 999 = 1000: the left operand is the shorter one and the carry leaves the
\* top digit.
AdditionExactWitness ==
    /\ op.name = "add"
    /\ op.l = <<1>>
    /\ op.r = <<9, 9, 9>>
    /\ Produced = <<0, 0, 0, 1>>

\* C5: a * b is the canonical decimal representation of value(a) * value(b), one
\* digit long if a or b is zero and otherwise at least as long as the longer
\* operand and at most as long as both together, and no write of the
\* multiplication leaves its buffer of len(a) + len(b) digits.
MultiplicationExact ==
    op.name = "mul" =>
        /\ status = "ok"
        /\ Canonical(Produced)
        /\ Value(Produced) = Value(op.l) * Value(op.r)
        /\ IF op.l = <<0>> \/ op.r = <<0>>
           THEN Len(Produced) = 1
           ELSE /\ Len(Produced) >= Max(Len(op.l), Len(op.r))
                /\ Len(Produced) <= Len(op.l) + Len(op.r)

\* 999 * 99 = 98901: digit products of 81 with carries, and a full-length result.
MultiplicationExactWitness ==
    /\ op.name = "mul"
    /\ op.l = <<9, 9, 9>>
    /\ op.r = <<9, 9>>
    /\ Produced = <<1, 0, 9, 8, 9>>

\* C6: factorial, power and fibonacci called with a negative number or exponent
\* end in a failure: they do not iterate, do not return a BigInt and do not
\* read fibonacci_pair outside its two elements.
NegativeArgumentRejected ==
    call.arg < 0 => (steps = 0 /\ pc \notin {"returned", "crashed"})

IsDecimal(str) == Len(str) > 0 /\ \A k \in 1..Len(str) : str[k] \in Zero..(Zero + 9)

\* C7: the construction of a BigInt from a string that is empty or holds a
\* character that is no digit, directly or by operator>>, ends in the failure
\* InvalidDigitInput and leaves no BigInt without digits or with an element
\* outside 0..9.
InvalidDigitInputReported ==
    (op.name \in {"string", "read"} /\ ~IsDecimal(text)) =>
        /\ status = "InvalidDigitInput"
        /\ Len(Produced) > 0
        /\ IsDigits(Produced)

FibonacciCall == call.fn = "fibonacci" /\ call.arg >= 0

FibonacciReturned ==
    (FibonacciCall /\ pc = "returned") =>
        /\ status = "ok"
        /\ count \in {0, 1}
        /\ ret = (IF count = 0 THEN mem.pair0 ELSE mem.pair1)
        /\ Canonical(ret)
        /\ Value(ret) = Fib(call.arg)

\* C8: fibonacci(n) with n >= 0 returns, and what it returns is the canonical
\* BigInt of the n-th Fibonacci number (F(0) = 0, F(1) = 1), the element of the
\* pair its counter, then 0 or 1, selects.
FibonacciCorrect ==
    /\ []FibonacciReturned
    /\ (FibonacciCall /\ pc = "fibonacci") ~> (pc = "returned")

\* fibonacci(10) has returned 55.
FibonacciCorrectWitness ==
    /\ pc = "returned"
    /\ call.fn = "fibonacci"
    /\ call.arg = 10
    /\ steps = 5
    /\ ret = <<5, 5>>

PowerCall == call.fn = "power" /\ call.arg >= 0

PowerReturned ==
    (PowerCall /\ pc = "returned") =>
        /\ Canonical(ret)
        /\ Value(ret) = PowNat(call.base, call.arg)

\* After k iterations base has been squared k times by `base *= base`, where
\* both operands are the same object.  (The squares are compared as numbers
\* while they are below 10^9.)
PowerSquares ==
    (PowerCall /\ pc = "power") =>
        /\ Canonical(mem.base)
        /\ Len(mem.base) <= 9 => Value(mem.base) = PowNat(call.base, PowNat(2, steps))

\* C9: power(base, exponent) with exponent >= 0 returns, and what it returns is
\* the canonical BigInt of base^exponent (1 for exponent 0, also with base 0);
\* every `base *= base` leaves in base the exact square.
PowerCorrect ==
    /\ [](PowerReturned /\ PowerSquares)
    /\ (PowerCall /\ pc = "power") ~> (pc = "returned")

\* power(2, 10) has returned 1024.
PowerCorrectWitness ==
    /\ pc = "returned"
    /\ call.fn = "power"
    /\ call.base = 2
    /\ call.arg = 10
    /\ steps = 4
    /\ ret = <<4, 2, 0, 1>>

\* C10: when main() has evaluated power(2, input_1) - power(2, input_2), the
\* minuend was not smaller than the subtrahend.
DriverProtectsPrecondition ==
    main \in {"fibonacci", "exit", "crashed"} =>
        Value(mem.minuend) >= Value(mem.subtrahend)

====
